---- MODULE Spec2Model ----
(***************************************************************************)
(* Model of speech_recognition_system.py: one run of main().  Paths and    *)
(* printed text are sequences of one-character (or literal-piece) strings, *)
(* so that strip / split / lower / replace are computed as Python computes *)
(* them.  The file system, the codec, the wave reader, the recognition     *)
(* service, the clock and the output-file write are the environment; their *)
(* outcomes are drawn with \E in the action that calls them.               *)
(***************************************************************************)
EXTENDS Integers, Sequences, FiniteSets, TLC

VARIABLES pc, files, file_name, file_ext, file_path, header, duration,
          transcription, calls, writes, stdout, outFile, clock, steps, fatal,
          service, tty

vars == <<pc, files, file_name, file_ext, file_path, header, duration,
          transcription, calls, writes, stdout, outFile, clock, steps, fatal,
          service, tty>>

(* ------------------------------ bounds --------------------------------- *)
MaxFrames == 4
MaxClock == 2

(* ------------------------- text primitives ----------------------------- *)
RECURSIVE Rep(_, _)
Rep(c, n) == IF n = 0 THEN <<>> ELSE <<c>> \o Rep(c, n - 1)

Digit(d) == <<"0", "1", "2", "3", "4", "5", "6", "7", "8", "9">>[d + 1]

RECURSIVE IntStr(_)
IntStr(n) == IF n < 10 THEN <<Digit(n)>> ELSE IntStr(n \div 10) \o <<Digit(n % 10)>>

TwoDigits(n) == <<Digit((n \div 10) % 10), Digit(n % 10)>>

Lower(c) ==
    CASE c = "M" -> "m" [] c = "P" -> "p" [] c = "W" -> "w"
      [] c = "A" -> "a" [] c = "V" -> "v" [] OTHER -> c

LowerStr(s) == [i \in 1..Len(s) |-> Lower(s[i])]

IsSpace(c) == c = " "

RECURSIVE Strip(_)
Strip(s) ==
    IF s = <<>> THEN s
    ELSE IF IsSpace(Head(s)) THEN Strip(Tail(s))
    ELSE IF IsSpace(s[Len(s)]) THEN Strip(SubSeq(s, 1, Len(s) - 1))
    ELSE s

\* s.split('.')[-1]: the text after the last '.', the whole text if none
SplitLast(s) ==
    LET dots == {i \in 1..Len(s) : s[i] = "."}
        last == IF dots = {} THEN 0 ELSE CHOOSE i \in dots : \A j \in dots : j <= i
    IN  SubSeq(s, last + 1, Len(s))

StartsWithAt(s, i, old) ==
    /\ i + Len(old) - 1 <= Len(s)
    /\ SubSeq(s, i, i + Len(old) - 1) = old

\* str.replace(old, new): every non-overlapping occurrence, left to right
RECURSIVE ReplaceFrom(_, _, _, _)
ReplaceFrom(s, i, old, new) ==
    IF i > Len(s) THEN <<>>
    ELSE IF StartsWithAt(s, i, old) THEN new \o ReplaceFrom(s, i + Len(old), old, new)
    ELSE <<s[i]>> \o ReplaceFrom(s, i + 1, old, new)

Replace(s, old, new) == ReplaceFrom(s, 1, old, new)

DOT_MP3 == <<".", "m", "p", "3">>
DOT_WAV == <<".", "w", "a", "v">>
MP3 == <<"m", "p", "3">>
WAV == <<"w", "a", "v">>

\* line 103
WavFileName(name) == Replace(name, DOT_MP3, DOT_WAV)

FileExt(name) == LowerStr(SplitLast(name))

(* --------------------------- environment ------------------------------- *)
P_wav == <<"a", ".", "w", "a", "v">>
P_WAV == <<"a", ".", "W", "A", "V">>
P_mp3 == <<"a", ".", "m", "p", "3">>
P_MP3 == <<"a", ".", "M", "P", "3">>
P_mp3mp3 == <<"a", ".", "m", "p", "3", ".", "m", "p", "3">>
P_barmp3 == <<"m", "p", "3">>
P_flac == <<"a", ".", "f", "l", "a", "c">>
P_noext == <<"a">>

Paths == {P_wav, P_WAV, P_mp3, P_MP3, P_mp3mp3, P_barmp3, P_flac, P_noext}

\* what the operator may type at the prompt
RawInputs == Paths \cup {<<" ">> \o P_wav \o <<" ">>, P_mp3 \o <<" ">>}

\* standard input is closed or at end of file: input() raises EOFError
EOF == <<"<EOF>">>

Rates == {0, 1, 3, 8, 40}

\* why wave.open could not read the file: EOFError (empty or cut short),
\* the wave.Error cases, or the file cannot be opened at all
WaveErrors == {"eof", "no_riff", "not_wave", "no_fmt", "not_pcm", "eacces"}

\* str(e) of the exception caught at line 34
WaveErrorText(err, path) ==
    CASE err = "eof" -> <<>>
      [] err = "no_riff" -> <<"file does not start with RIFF id">>
      [] err = "not_wave" -> <<"not a WAVE file">>
      [] err = "no_fmt" -> <<"fmt chunk and/or data chunk missing">>
      [] err = "not_pcm" -> <<"unknown format: 3">>
      [] err = "eacces" -> <<"[Errno 13] Permission denied: '">> \o path \o <<"'">>
      \* ZeroDivisionError of line 32, for a readable header with rate 0
      [] OTHER -> <<"float division by zero">>

\* what wave.open finds: a header with its frame count and rate, or an error
Headers ==
    [readable : {TRUE}, frames : 0..MaxFrames, rate : Rates, err : {"none"}] \cup
    [readable : {FALSE}, frames : {0}, rate : {0}, err : WaveErrors]

NoHeader == [readable |-> FALSE, frames |-> 0, rate |-> 0, err |-> "none"]

Texts == {<<"hello world">>, <<"hello", " ", "there">>}
Descriptions == {<<"quota exceeded">>, <<"recognition connection failed: ", "timed out">>}

\* recognize_google: text | UnknownValueError | RequestError(description) |
\* an exception of any other type (a timeout or reset while the response is
\* read, a malformed response)
ServiceOutcomes ==
    [kind : {"text"}, val : Texts] \cup
    [kind : {"unknown"}, val : {<<>>}] \cup
    [kind : {"request_error"}, val : Descriptions] \cup
    [kind : {"other"}, val : {<<"timed out">>}]

NoOutcome == [kind |-> "none", val |-> <<>>]

OUTPUT_FILE == <<"transcription_output.txt">>

NoFile == <<<<"<absent>">>>>
OldReport == <<<<"report of an earlier run">>>>

(* ------------------------------ duration ------------------------------- *)
RECURSIVE BitLen(_)
BitLen(n) == IF n = 0 THEN 0 ELSE 1 + BitLen(n \div 2)

\* sign of (the IEEE double nearest to n/r) - n/r, by binary long division:
\* rem/r is the part of the quotient not yet produced, sig the number of
\* significant bits produced so far, last the last bit produced
RECURSIVE FloatErrSign(_, _, _, _)
FloatErrSign(rem, r, sig, last) ==
    IF rem = 0 THEN 0
    ELSE IF sig = 53
         THEN IF 2 * rem < r THEN -1
              ELSE IF 2 * rem > r THEN 1
              ELSE IF last = 0 THEN -1 ELSE 1
    ELSE LET b == IF 2 * rem >= r THEN 1 ELSE 0
         IN  FloatErrSign(2 * rem - b * r, r,
                          IF sig > 0 \/ b = 1 THEN sig + 1 ELSE 0, b)

Round2Trunc(n, r) == (100 * n) \div r

\* round(frames / float(rate), 2) in hundredths: the double frames/rate
\* rounded to the nearest hundredth, an exactly representable half to even
Round2(n, r) ==
    LET fl == (100 * n) \div r
        rem == (100 * n) % r
        s == FloatErrSign(n % r, r, BitLen(n \div r), (n \div r) % 2)
    IN  IF 2 * rem < r THEN fl
        ELSE IF 2 * rem > r THEN fl + 1
        ELSE IF s < 0 THEN fl
        ELSE IF s > 0 THEN fl + 1
        ELSE IF fl % 2 = 0 THEN fl ELSE fl + 1

\* a duration value: float tells Python's float from the int 0 of line 36,
\* h is the value in hundredths of a second
IntZero == [float |-> FALSE, h |-> 0]

\* lines 28-36
get_audio_duration(hd) ==
    IF hd.readable /\ hd.rate # 0
    THEN [float |-> TRUE, h |-> Round2(hd.frames, hd.rate)]
    ELSE IntZero

\* str() of a duration: "0" for the int, shortest repr for the float
DurStr(d) ==
    IF ~d.float THEN IntStr(d.h)
    ELSE IntStr(d.h \div 100) \o <<".">> \o
         (IF d.h % 10 = 0 THEN <<Digit((d.h \div 10) % 10)>> ELSE TwoDigits(d.h % 100))

\* strftime('%Y-%m-%d %H:%M:%S') of the clock, counted in seconds from an
\* arbitrary start of day
Strftime(t) ==
    <<"2025-01-01 ">> \o TwoDigits((t \div 3600) % 24) \o <<":">>
      \o TwoDigits((t \div 60) % 60) \o <<":">> \o TwoDigits(t % 60)

(* ---------------------------- transcription ---------------------------- *)
COULD_NOT_UNDERSTAND == <<"Could not understand the audio.">>
REQUEST_FAILED == <<"Google API request failed: ">>

\* lines 56-59 catch UnknownValueError and RequestError only
Caught(o) == o.kind \in {"text", "unknown", "request_error"}

\* lines 52-59, for the outcomes that return
TranscriptionOf(o) ==
    CASE o.kind = "text" -> o.val
      [] o.kind = "unknown" -> COULD_NOT_UNDERSTAND
      [] OTHER -> REQUEST_FAILED \o o.val

(* ------------------------------- reports ------------------------------- *)
\* lines 121-129, one element per printed line
StdoutReport(path, dur, text, t) ==
    << <<>>, Rep("=", 70),
       <<"TRANSCRIPTION REPORT">>,
       Rep("=", 70),
       <<"File Name     : ">> \o path,
       <<"Duration      : ">> \o DurStr(dur) \o <<" seconds">>,
       <<"Processed At  : ">> \o Strftime(t),
       <<>>, <<"Transcribed Text:">>, <<>>,
       text,
       Rep("=", 70) >>

\* lines 72-78, one element per line of the file
FileReport(path, dur, text, t) ==
    << <<"TRANSCRIPTION REPORT">>,
       Rep("=", 50),
       <<"File Name     : ">> \o path,
       <<"Duration      : ">> \o DurStr(dur) \o <<" seconds">>,
       <<"Processed At  : ">> \o Strftime(t),
       <<>>,
       <<"Transcribed Text:">>,
       text >>

SAVED_MSG == << <<>>, <<"Transcription successfully saved to '">> \o OUTPUT_FILE \o <<"'">> >>

(* -------------------------------- state -------------------------------- *)
\* writes logs every open-for-write the run attempts, in order
WriteLog(path, result) == [path |-> path, result |-> result]

Init ==
    /\ pc = "input"
    /\ files \in {{}} \cup {{p} : p \in Paths}
    /\ file_name = <<>>
    /\ file_ext = <<>>
    /\ file_path = <<>>
    /\ header = NoHeader
    /\ duration = IntZero
    /\ transcription = <<>>
    /\ calls = 0
    /\ writes = <<>>
    /\ stdout = <<>>
    /\ outFile \in {NoFile, OldReport}
    /\ clock = 0
    /\ steps = <<>>
    /\ fatal = "none"
    /\ service = NoOutcome
    /\ tty \in BOOLEAN

BANNER == << <<>>, <<"Speech-to-Text Transcription Tool">>, Rep("=", 50) >>

IsFileAlways(p) == TRUE

\* os.path.isfile, line 91
IsFile(p) == p \in files

PROMPT == <<"Enter the full path to your .wav or .mp3 file: ">>

\* input(prompt), line 89: on a terminal the prompt goes to the terminal and
\* not to standard output; otherwise it is written to standard output with no
\* newline, so it starts the line that the next print continues.  The last
\* element of stdout is that unfinished line while pc = "format".
Prompted(isTty) == IF isTty THEN <<>> ELSE PROMPT

\* lines 85-93: banner, prompt, strip, existence check
CheckFile ==
    /\ pc = "input"
    /\ steps' = Append(steps, "Validate")
    /\ \E raw \in RawInputs \cup {EOF} :
         IF raw = EOF
         THEN /\ stdout' = stdout \o BANNER \o (IF tty THEN <<>> ELSE <<PROMPT>>)
              /\ pc' = "raised"
              /\ fatal' = "stdin"
              /\ file_name' = file_name
         ELSE LET name == Strip(raw) IN
              /\ file_name' = name
              /\ IF ~IsFile(name)
                 THEN /\ stdout' = stdout \o BANNER \o
                             << Prompted(tty) \o
                                <<"Error: The specified file does not exist.">> >>
                      /\ pc' = "returned"
                      /\ fatal' = "input"
                 ELSE /\ stdout' = stdout \o BANNER \o
                             (IF tty THEN <<>> ELSE <<PROMPT>>)
                      /\ pc' = "format"
                      /\ fatal' = fatal
    /\ UNCHANGED <<files, file_ext, file_path, header, duration, transcription,
                   calls, writes, outFile, clock, service, tty>>

\* what AudioSegment.from_mp3 / export can do: succeed, fail to decode
\* (nothing written), fail while exporting before or after the target was
\* opened
CodecOutcomes == {"ok", "decode_error", "export_error", "export_partial"}

AfterCodecIgnoresFailure(codec) == "duration"

\* lines 102-106: an exception of the codec is not caught and ends the run
AfterCodec(codec) == IF codec = "ok" THEN "duration" ELSE "raised"

\* lines 95-111: extension, MP3 conversion or pass-through or rejection
Normalize ==
    /\ pc = "format"
    /\ LET ext == FileExt(file_name)
           \* the leading newline of line 96 ends the prompt's line when the
           \* prompt is on standard output, and makes an empty line otherwise
           detected == (IF tty THEN << <<>> >> ELSE <<>>) \o
                       << <<"File detected: ">> \o file_name,
                          <<"File type     : ">> \o ext >>
           converting == << <<>>, <<"Converting MP3 to WAV format...">> >>
       IN
       /\ file_ext' = ext
       /\ IF ext = MP3
          THEN LET wav_file == WavFileName(file_name) IN
               /\ steps' = Append(steps, "Normalize")
               /\ \E codec \in CodecOutcomes :
                    /\ pc' = AfterCodec(codec)
                    /\ fatal' = IF codec = "ok" THEN fatal ELSE "codec"
                    /\ IF codec = "ok"
                       THEN /\ files' = files \cup {wav_file}
                            /\ writes' = Append(writes, WriteLog(wav_file, "complete"))
                            /\ file_path' = wav_file
                            /\ stdout' = stdout \o detected \o converting \o
                                  << <<"Conversion complete. New file: ">> \o wav_file >>
                       ELSE /\ stdout' = stdout \o detected \o converting
                            /\ file_path' = file_path
                            /\ IF codec = "export_partial"
                               THEN /\ files' = files \cup {wav_file}
                                    /\ writes' = Append(writes, WriteLog(wav_file, "partial"))
                               ELSE /\ files' = files
                                    /\ writes' = IF codec = "export_error"
                                                 THEN Append(writes, WriteLog(wav_file, "failed"))
                                                 ELSE writes
          ELSE IF ext = WAV
          THEN /\ steps' = Append(steps, "Normalize")
               /\ file_path' = file_name
               /\ stdout' = stdout \o detected
               /\ pc' = "duration"
               /\ UNCHANGED <<files, writes, fatal>>
          ELSE /\ stdout' = stdout \o detected \o
                     << <<"Unsupported file type. Please provide a .mp3 or .wav file.">> >>
               /\ pc' = "returned"
               /\ fatal' = "input"
               /\ UNCHANGED <<files, writes, file_path, steps>>
    /\ UNCHANGED <<file_name, header, duration, transcription, calls, outFile,
                   clock, service, tty>>

\* file_path was written by a completed export of this run (line 104)
Converted == \E i \in 1..Len(writes) : writes[i] = WriteLog(file_path, "complete")

\* a file the codec has just exported is a well-formed PCM file; a .wav the
\* operator supplied can hold anything
HeadersOf(converted) ==
    IF converted THEN {hd \in Headers : hd.readable /\ hd.rate # 0} ELSE Headers

\* sr.AudioFile(path) entered at line 49 and recognizer.record(source) at
\* line 51: either may raise
AudioOutcomes(converted) ==
    IF converted THEN {"ok"} ELSE {"ok", "raises_enter", "raises_record"}

\* lines 113-115 with get_audio_duration; the header is what wave.open finds
\* in file_path
MeasureDuration ==
    /\ pc = "duration"
    /\ \E hd \in HeadersOf(Converted) :
         LET d == get_audio_duration(hd) IN
         /\ header' = hd
         /\ duration' = d
         /\ stdout' = stdout \o
               (IF hd.readable /\ hd.rate # 0 THEN <<>>
                ELSE << <<"Error reading audio file: ">> \o
                        WaveErrorText(hd.err, file_path) >>)
               \o << <<>>, <<"Audio Duration: ">> \o DurStr(d) \o <<" seconds">> >>
    /\ steps' = Append(steps, "MeasureDuration")
    /\ pc' = "transcribe"
    /\ UNCHANGED <<files, file_name, file_ext, file_path, transcription, calls,
                   writes, outFile, clock, fatal, service, tty>>

CallsAfterRetry(c, o) == IF o.kind = "text" THEN c + 1 ELSE c + 2

\* line 54 is reached once and is not in a loop
CallsAfter(c, o) == c + 1

\* lines 117-118 with transcribe_audio: sr.AudioFile / record run outside the
\* try block, so an exception there ends the run; recognize_google runs inside
\* it, where only UnknownValueError and RequestError are caught
Transcribe ==
    /\ pc = "transcribe"
    /\ steps' = Append(steps, "Transcribe")
    /\ \E audio \in AudioOutcomes(Converted) :
         IF audio # "ok"
         THEN /\ pc' = "raised"
              /\ fatal' = "audio"
              /\ stdout' = stdout \o (IF audio = "raises_record"
                                      THEN << <<"Listening to audio...">> >>
                                      ELSE <<>>)
              /\ UNCHANGED <<calls, transcription, service>>
         ELSE \E o \in ServiceOutcomes :
                /\ service' = o
                /\ calls' = CallsAfter(calls, o)
                /\ stdout' = stdout \o << <<"Listening to audio...">>,
                                          <<"Transcribing audio...">> >>
                /\ IF Caught(o)
                   THEN /\ transcription' = TranscriptionOf(o)
                        /\ pc' = "report"
                        /\ fatal' = fatal
                   ELSE /\ transcription' = transcription
                        /\ pc' = "raised"
                        /\ fatal' = "service"
    /\ UNCHANGED <<files, file_name, file_ext, file_path, header, duration,
                   writes, outFile, clock, tty>>

\* lines 120-129
PrintReport ==
    /\ pc = "report"
    /\ stdout' = stdout \o StdoutReport(file_path, duration, transcription, clock)
    /\ steps' = Append(steps, "Emit")
    /\ pc' = "save"
    /\ UNCHANGED <<files, file_name, file_ext, file_path, header, duration,
                   transcription, calls, writes, outFile, clock, fatal, service,
                   tty>>

SavedMessageAlways(result) == SAVED_MSG

\* line 79 follows the with block of lines 71-78
SavedMessage(result) == IF result = "complete" THEN SAVED_MSG ELSE <<>>

\* lines 131-132 with save_transcription_report: open(..., "w") may fail, a
\* write may fail after k lines, or all of it is written
SaveReport ==
    /\ pc = "save"
    /\ LET report == FileReport(file_path, duration, transcription, clock) IN
       \E result \in {"complete", "partial", "failed"} :
         /\ writes' = Append(writes, WriteLog(OUTPUT_FILE, result))
         /\ stdout' = stdout \o SavedMessage(result)
         /\ CASE result = "complete" ->
                   /\ outFile' = report
                   /\ pc' = "done"
                   /\ fatal' = fatal
              [] result = "partial" ->
                   /\ \E k \in 0..(Len(report) - 1) : outFile' = SubSeq(report, 1, k)
                   /\ pc' = "raised"
                   /\ fatal' = "output"
              [] OTHER ->
                   /\ outFile' = outFile
                   /\ pc' = "raised"
                   /\ fatal' = "output"
    /\ UNCHANGED <<files, file_name, file_ext, file_path, header, duration,
                   transcription, calls, clock, steps, service, tty>>

\* the wall clock read by datetime.datetime.now() (lines 76 and 126)
\* advances on its own; only its advance before a read can be observed
Tick ==
    /\ pc \in {"report", "save"}
    /\ clock < MaxClock
    /\ clock' = clock + 1
    /\ UNCHANGED <<pc, files, file_name, file_ext, file_path, header, duration,
                   transcription, calls, writes, stdout, outFile, steps, fatal,
                   service, tty>>

Next ==
    \/ CheckFile
    \/ Normalize
    \/ MeasureDuration
    \/ Transcribe
    \/ PrintReport
    \/ SaveReport
    \/ Tick

Spec == Init /\ [][Next]_vars
(* ------------------------- observation helpers ------------------------- *)
InSeq(x, s) == \E i \in 1..Len(s) : s[i] = x

IsPrefix(s, t) == Len(s) <= Len(t) /\ SubSeq(t, 1, Len(s)) = s

Abs(x) == IF x < 0 THEN -x ELSE x

Pipeline == <<"Validate", "Normalize", "MeasureDuration", "Transcribe", "Emit">>

TITLE == <<"TRANSCRIPTION REPORT">>

TitleLines == {i \in 1..Len(stdout) : stdout[i] = TITLE}

StdoutHasReport == TitleLines # {}

\* the twelve lines of the report on standard output
Printed == LET i == CHOOSE j \in TitleLines : TRUE IN SubSeq(stdout, i - 2, i + 9)

SavedMessagePrinted == InSeq(SAVED_MSG[2], stdout)

OutputOpens == {i \in 1..Len(writes) : writes[i].path = OUTPUT_FILE}

Untouched == outFile \in {NoFile, OldReport}

Saved == pc = "done"

(* -------------------------------- claims ------------------------------- *)
ValidInput == file_name \in files /\ FileExt(file_name) \in {MP3, WAV}

\* C1: a run whose input fails validation (no such regular file, or a tag
\* other than wav / mp3) ends by returning, having written no file at all
\* (neither the report nor an intermediate .wav) and made no recognition call.
C1_InvalidInputNoArtifacts ==
    (pc # "input" /\ fatal # "stdin" /\ ~ValidInput) =>
        /\ writes = <<>>
        /\ Untouched
        /\ calls = 0
        /\ ~StdoutHasReport
        /\ steps = <<"Validate">>
        /\ pc = "returned" \/ (pc = "format" /\ file_name \in files)

C1_Witness ==
    /\ pc = "returned"
    /\ file_name = P_wav
    /\ file_name \notin files
    /\ fatal = "input"

\* C2 (as claimed): for the tag mp3 the converted audio goes to the sibling
\* path that replaces the trailing ".mp3" by ".wav"; that path differs from
\* the entered one, the input file is never written, and the new path is the
\* one handed to the duration and transcription steps.
C2_SiblingWavNeverInput ==
    (file_ext = MP3 /\ pc \in {"duration", "transcribe", "report", "save", "done"}) =>
        LET sibling == SubSeq(file_name, 1, Len(file_name) - 4) \o DOT_WAV IN
        /\ writes # <<>>
        /\ writes[1].path = sibling
        /\ sibling # file_name
        /\ \A i \in 1..Len(writes) : writes[i].path # file_name
        /\ file_path = sibling

DurationFailed ==
    /\ InSeq("MeasureDuration", steps)
    /\ ~(header.readable /\ header.rate # 0)

\* C3 (as claimed): when the duration step cannot read the header the
\* duration is exactly the integer 0 and the run is not aborted before the
\* report is emitted with the line "Duration      : 0 seconds".
C3_DurationFailureStillEmits ==
    DurationFailed =>
        /\ duration = IntZero
        /\ ~(pc = "raised" /\ ~InSeq("Emit", steps))
        /\ StdoutHasReport => Printed[6] = <<"Duration      : ", "0", " seconds">>
        /\ Saved => outFile[4] = <<"Duration      : ", "0", " seconds">>

ExpectedText ==
    CASE service.kind = "text" -> service.val
      [] service.kind = "unknown" -> <<"Could not understand the audio.">>
      [] OTHER -> <<"Google API request failed: ">> \o service.val

Called == service.kind # "none"

\* C4 (as claimed): once the recognition call has been issued, whatever
\* the service answers the run is not aborted on that account and goes on to
\* emit the report, and the transcribed text is the returned text, or "Could
\* not understand the audio.", or "Google API request failed: " followed by
\* the failure's description.
C4_ServiceOutcomeNeverFatal ==
    Called =>
        /\ transcription = ExpectedText
        /\ fatal \in {"none", "output"}
        /\ pc \in {"report", "save", "done", "raised"}
        /\ pc = "raised" => StdoutHasReport
        /\ StdoutHasReport => Printed[11] = ExpectedText
        /\ Saved => outFile[8] = ExpectedText

\* C5: the steps run in the order Validate, Normalize, MeasureDuration,
\* Transcribe, Emit, each at most once; after a fatal failure nothing more
\* happens, and after a failed MP3 conversion there is no recognition call
\* and no report.
C5_LinearPipelineAbortsOnFatal ==
    /\ [](IsPrefix(steps, Pipeline))
    /\ [](fatal = "input" => steps = <<"Validate">> /\ pc = "returned")
    /\ [](fatal = "codec" =>
            /\ pc = "raised"
            /\ steps = <<"Validate", "Normalize">>
            /\ calls = 0
            /\ ~StdoutHasReport
            /\ OutputOpens = {}
            /\ Untouched)
    /\ [](fatal = "output" => pc = "raised" /\ steps = Pipeline)
    /\ [][fatal # "none" =>
            UNCHANGED <<pc, steps, calls, writes, stdout, outFile, fatal>>]_vars

C5_Witness ==
    /\ fatal = "codec"
    /\ pc = "raised"
    /\ file_name = P_mp3

\* C6: at most one recognition call per run, not repeated after an
\* ambiguous-audio or failed-request answer; a run that reaches Emit has made
\* exactly one.
C6_AtMostOneCall ==
    /\ calls <= 1
    /\ Called => calls = 1
    /\ InSeq("Emit", steps) => calls = 1

C6_Witness ==
    /\ Saved
    /\ service.kind = "unknown"
    /\ calls = 1

\* C7 (as claimed): when the report has been written, standard output shows
\* the same file path, duration, processed-at timestamp and transcribed
\* text, in the same layout.
C7_StdoutMirrorsFile ==
    Saved =>
        /\ Printed[5] = outFile[3]
        /\ Printed[6] = outFile[4]
        /\ Printed[7] = outFile[5]
        /\ Printed[11] = outFile[8]
        /\ SubSeq(Printed, 3, 4) = SubSeq(outFile, 1, 2)
        /\ SubSeq(Printed, 8, 9) = SubSeq(outFile, 6, 7)

\* C8: the report is fully on standard output before the output file is
\* opened; a failed write is fatal, nothing is written anywhere else, and the
\* "successfully saved" message appears only after a completed write.
C8_StdoutBeforeWrite ==
    /\ OutputOpens # {} =>
          /\ StdoutHasReport
          /\ \E t \in 0..clock :
                Printed = StdoutReport(file_path, duration, transcription, t)
    /\ Cardinality(OutputOpens) <= 1
    /\ fatal = "output" =>
          /\ pc = "raised"
          /\ writes[Len(writes)].path = OUTPUT_FILE
          /\ writes[Len(writes)].result # "complete"
          /\ ~SavedMessagePrinted
    /\ SavedMessagePrinted =>
          /\ Saved
          /\ writes[Len(writes)] = WriteLog(OUTPUT_FILE, "complete")
          /\ \E t \in 0..clock :
                outFile = FileReport(file_path, duration, transcription, t)

C8_Witness ==
    /\ fatal = "output"
    /\ StdoutHasReport
    /\ writes[Len(writes)] = WriteLog(OUTPUT_FILE, "failed")
    /\ ~SavedMessagePrinted

\* C9: for a readable header with n >= 0 frames and rate r > 0 the duration
\* is n / r rounded to two decimals (within half a hundredth of n / r); for
\* an unreadable header or r = 0 it is 0; so the duration of every report is
\* a non-negative number of hundredths.
C9_DurationRounded ==
    InSeq("MeasureDuration", steps) =>
        /\ (header.readable /\ header.rate > 0) =>
              /\ duration.float
              /\ 2 * Abs(100 * header.frames - duration.h * header.rate) <= header.rate
        /\ ~(header.readable /\ header.rate > 0) => duration = IntZero
        /\ duration.h >= 0
        /\ StdoutHasReport =>
              Printed[6] = <<"Duration      : ">> \o DurStr(duration) \o <<" seconds">>

C9_Witness ==
    /\ pc = "transcribe"
    /\ header = [readable |-> TRUE, frames |-> 2, rate |-> 3, err |-> "none"]
    /\ duration = [float |-> TRUE, h |-> 67]

\* C10 (as claimed): the report is produced at most once and its "File Name"
\* field is the path the operator entered, for .wav and .mp3 inputs alike.
C10_ReportNamesEnteredPath ==
    /\ Cardinality(TitleLines) <= 1
    /\ StdoutHasReport => Printed[5] = <<"File Name     : ">> \o file_name
    /\ Saved => outFile[3] = <<"File Name     : ">> \o file_name
====
